---- MODULE Spec2Model ----
(***************************************************************************)
(* Model of the Mach-O symbolication backend of backtrace-rs               *)
(* (src/symbolize/gimli/macho.rs): HeaderLocator (find_header),            *)
(* ObjectParser (Object::parse), SymbolIndex (section, search_symtab),     *)
(* ObjectMapResolver (search_object_map, object_mapping,                   *)
(* split_archive_path) and the debug-bundle locator (Mapping::new).        *)
(*                                                                         *)
(* Option<T> is modelled as a sequence of length at most one:              *)
(* None == <<>> and Some(x) == <<x>>.  Byte strings are sequences of       *)
(* one-character strings.                                                  *)
(***************************************************************************)
EXTENDS Integers, Sequences, FiniteSets, TLC

VARIABLES
    target,     \* the build configuration: [arch, width] (cfg!(target_arch), target_pointer_width)
    done,       \* the name of the last operation that completed ("" before the first)
    path,       \* the argument of split_archive_path
    split,      \* what split_archive_path returned: an Option of <<archive, member>>
    file,       \* the bytes handed to find_header
    header,     \* what find_header returned: an Option of [macho, offset, size]
    mach,       \* the thin image handed to Object::parse
    object,     \* what Object::parse returned: an Option of an Object
    query,      \* the argument of the last section / search_symtab / search_object_map call
    ret,        \* what that call returned
    fs,         \* the files the debug map may name: path -> Option of [archive, file, members]
    calls,      \* calls[i]: how many times object_mapping ran for object index i
    exe,        \* Mapping::new: what mmap(path) gives for the target, an Option of a file
    parent,     \* Mapping::new: the listing of the target's parent directory
    mapping     \* what Mapping::new returned: an Option of [from, object]

splitVars == <<path, split>>
hdrVars == <<file, header>>
objVars == <<mach, object, query, ret, fs, calls>>
newVars == <<exe, parent, mapping>>
vars == <<target, done, path, split, file, header, mach, object, query, ret, fs, calls,
          exe, parent, mapping>>

None == <<>>
Some(x) == <<x>>

Min(a, b) == IF a <= b THEN a ELSE b

\* All sequences over S of length at most n.
SeqsUpTo(S, n) == UNION {[1..k -> S] : k \in 0..n}

(***************************************************************************)
(* Bounds of the model.                                                    *)
(***************************************************************************)
MaxPathLen == 4
MaxArch == 2
MaxCmds == 3
MaxSyms == 3
MaxSects == 2
MaxMapSyms == 2
MaxCalls == 2
MaxFiles == 4
\* The width of an address, in bits: u64 scaled down so that wrap-around is reachable.
AddrBits == 3

(***************************************************************************)
(* split_archive_path                                                      *)
(***************************************************************************)
\* A search from the right (rfind) in place of find.
find_last(s, c) ==
    IF \E i \in 1..Len(s) : s[i] = c
    THEN Some((CHOOSE i \in 1..Len(s) : s[i] = c /\ \A j \in (i + 1)..Len(s) : s[j] # c) - 1)
    ELSE None

\* slice::find: the index (0-based) of the first element equal to c.
find(s, c) ==
    IF \E i \in 1..Len(s) : s[i] = c
    THEN Some((CHOOSE i \in 1..Len(s) : s[i] = c /\ \A j \in 1..(i - 1) : s[j] # c) - 1)
    ELSE None

strip_prefix(s, c) == IF Len(s) > 0 /\ s[1] = c THEN Some(Tail(s)) ELSE None

strip_suffix(s, c) == IF Len(s) > 0 /\ s[Len(s)] = c THEN Some(SubSeq(s, 1, Len(s) - 1)) ELSE None

split_archive_path(p) ==
    LET index == find(p, "(") IN
    IF index = None THEN None
    ELSE LET archive == SubSeq(p, 1, index[1])
             rest == SubSeq(p, index[1] + 1, Len(p))
             inner == strip_prefix(rest, "(")
         IN IF inner = None THEN None
            ELSE LET member == strip_suffix(inner[1], ")")
                 IN IF member = None THEN None
                    ELSE Some(<<archive, member[1]>>)

PathBytes == {"a", "b", "(", ")"}
\* The paths of at most n bytes.
Paths(n) == SeqsUpTo(PathBytes, n)

(***************************************************************************)
(* find_header                                                             *)
(*                                                                         *)
(* A file is [cells, nfat, archs].  cells[o + 1] is what lies at byte      *)
(* offset o: the magic number found there and the image (thin Mach-O       *)
(* body) that follows it.  nfat is the architecture count a fat header     *)
(* declares and archs the descriptors that can actually be read after it.  *)
(***************************************************************************)
ThinMagics == {"MH_MAGIC", "MH_CIGAM", "MH_MAGIC_64", "MH_CIGAM_64"}
Fat32Magics == {"FAT_MAGIC", "FAT_CIGAM"}
Fat64Magics == {"FAT_MAGIC_64", "FAT_CIGAM_64"}
CpuTypes == {"CPU_TYPE_X86", "CPU_TYPE_X86_64", "CPU_TYPE_ARM", "CPU_TYPE_ARM64"}

Targets ==
    { [arch |-> "x86", width |-> 32], [arch |-> "x86_64", width |-> 64],
      [arch |-> "arm", width |-> 32], [arch |-> "aarch64", width |-> 64],
      [arch |-> "riscv64", width |-> 64] }

desired_cpu(t) ==
    IF t.arch = "x86" THEN Some("CPU_TYPE_X86")
    ELSE IF t.arch = "x86_64" THEN Some("CPU_TYPE_X86_64")
    ELSE IF t.arch = "arm" THEN Some("CPU_TYPE_ARM")
    ELSE IF t.arch = "aarch64" THEN Some("CPU_TYPE_ARM64")
    ELSE None

\* Bytes::read_bytes_at(offset, size): the sub-range, if it lies in the data.
\* (A value that does not fit usize lies outside every file, so the try_into
\* failures give the same None.)
read_bytes_at(f, offset, size) ==
    IF offset + size <= Len(f.cells) THEN Some([offset |-> offset, size |-> size]) ELSE None

\* Mach::parse(data): the header type is MachHeader32 or MachHeader64 by
\* target_pointer_width and accepts only its own magic, in either byte order.
Mach_parse(t, f, data) ==
    IF data.size >= 1
       /\ f.cells[data.offset + 1].magic
            \in (IF t.width = 64 THEN {"MH_MAGIC_64", "MH_CIGAM_64"} ELSE {"MH_MAGIC", "MH_CIGAM"})
    THEN Some([macho |-> f.cells[data.offset + 1], offset |-> data.offset, size |-> data.size])
    ELSE None

\* A find_arch that falls back to the first descriptor when none matches.
find_arch_or_first(t, f) ==
    LET n == Min(f.nfat, Len(f.archs))
        hit(i) == desired_cpu(t) = Some(f.archs[i].cputype)
    IN IF \E i \in 1..n : hit(i)
       THEN Some(f.archs[CHOOSE i \in 1..n : hit(i) /\ \A j \in 1..(i - 1) : ~hit(j)])
       ELSE IF n >= 1 THEN Some(f.archs[1]) ELSE None

\* (0..nfat).filter_map(read FatArch).find(cputype = desired_cpu()): the
\* first readable descriptor of the wanted CPU type.
find_arch(t, f) ==
    LET n == Min(f.nfat, Len(f.archs))
        hit(i) == desired_cpu(t) = Some(f.archs[i].cputype)
    IN IF \E i \in 1..n : hit(i)
       THEN Some(f.archs[CHOOSE i \in 1..n : hit(i) /\ \A j \in 1..(i - 1) : ~hit(j)])
       ELSE None

find_header(t, f) ==
    IF Len(f.cells) = 0 THEN None
    ELSE LET magic == f.cells[1].magic
             whole == [offset |-> 0, size |-> Len(f.cells)]
         IN IF magic \in ThinMagics THEN Mach_parse(t, f, whole)
            ELSE IF magic \in Fat32Magics \cup Fat64Magics
            THEN LET arch == find_arch(t, f)
                 IN IF arch = None THEN None
                    ELSE LET data == read_bytes_at(f, arch[1].offset, arch[1].size)
                         IN IF data = None THEN None ELSE Mach_parse(t, f, data[1])
            ELSE None

(***************************************************************************)
(* Object::parse                                                           *)
(*                                                                         *)
(* An image (the body of a thin Mach-O) is                                 *)
(*   [is_object, uuid, lc_ok, cmds, cx_ok]:                                *)
(* whether filetype = MH_OBJECT; the UUID record ("none": it has none,     *)
(* "err": reading it fails); whether load_commands() succeeds; the load    *)
(* commands; and whether the external Context builder (super::cx) accepts  *)
(* the parsed Object.  A load command is                                   *)
(*   [kind, ok, segname, sections, symbols]:                               *)
(* kind "segment" | "symtab" | "other", or "error" when commands.next()    *)
(* returns Err; ok whether from_command / symtab() decodes it; sections    *)
(* what segment.sections() gives (None: Err); symbols what                 *)
(* symtab.symbols() gives (None: Err), [nlists, map], map being the        *)
(* ObjectMap [symbols, objects] that symbols.object_map() derives from     *)
(* the stab entries.                                                       *)
(***************************************************************************)
NoMap == [symbols |-> <<>>, objects |-> <<>>]

\* nlist -> Some((name, address)) for a named definition, None otherwise.
nlist_entry(nlist) ==
    IF nlist.name = None THEN None
    ELSE IF Len(nlist.name[1]) > 0 /\ nlist.is_definition
         THEN Some(<<nlist.name[1], nlist.n_value>>)
         ELSE None

RECURSIVE filter_map_nlists(_)
filter_map_nlists(nlists) ==
    IF nlists = <<>> THEN <<>>
    ELSE nlist_entry(Head(nlists)) \o filter_map_nlists(Tail(nlists))

\* sort_unstable_by_key(|(_, addr)| *addr): every ordering of s that is
\* ascending by address; the order of equal addresses is not specified.
sort_unstable_by_key(s) ==
    LET n == Len(s)
        perms == {p \in [1..n -> 1..n] : \A i, j \in 1..n : i # j => p[i] # p[j]}
    IN {[i \in 1..n |-> s[p[i]]] :
            p \in {q \in perms : \A i \in 1..(n - 1) : s[q[i]][2] <= s[q[i + 1]][2]}}

\* A cache with one slot too many.
new_object_mappings_extra(map) == [i \in 1..(Len(map.objects) + 1) |-> None]

\* vec![None; map.objects.len()]
new_object_mappings(map) == [i \in 1..Len(map.objects) |-> None]

EmptyObject(data) ==
    [data |-> data, dwarf |-> None, syms |-> <<>>, object_map |-> None,
     object_mappings |-> <<>>]

\* A scan that fails when the next load command cannot be read.
on_next_error_strict(st) == {None}

\* while let Ok(Some(command)) = commands.next(): an Err ends the loop like
\* the end of the commands does, and what was gathered so far is returned.
on_next_error(st) == {Some(st)}

\* dwarf = segment.sections(endian, section_data).ok(): an Err gives None.
segment_sections(command) == command.sections

\* One pass of the while-let loop from command i on, st being the locals
\* (dwarf, syms, object_map, object_mappings).  The set of possible results.
RECURSIVE scan_commands(_, _, _)
scan_commands(m, i, st) ==
    IF i > Len(m.cmds) THEN {Some(st)}
    ELSE LET command == m.cmds[i] IN
         IF command.kind = "error" THEN on_next_error(st)
         ELSE IF command.kind = "segment"
         THEN IF ~command.ok THEN {None}
              ELSE IF command.segname = "__DWARF" \/ (m.is_object /\ command.segname = "")
                   THEN scan_commands(m, i + 1, [st EXCEPT !.dwarf = segment_sections(command)])
                   ELSE scan_commands(m, i + 1, st)
         ELSE IF command.kind = "symtab"
         THEN IF ~command.ok \/ command.symbols = None THEN {None}
              ELSE LET symbols == command.symbols[1]
                       withmap(o) ==
                           IF ~m.is_object
                           THEN [o EXCEPT !.object_map = Some(symbols.map),
                                          !.object_mappings = new_object_mappings(symbols.map)]
                           ELSE o
                   IN UNION {scan_commands(m, i + 1, withmap([st EXCEPT !.syms = syms])) :
                                syms \in sort_unstable_by_key(filter_map_nlists(symbols.nlists))}
         ELSE scan_commands(m, i + 1, st)

Object_parse(m, data) ==
    IF ~m.lc_ok THEN {None} ELSE scan_commands(m, 1, EmptyObject(data))

(***************************************************************************)
(* Object::section                                                         *)
(***************************************************************************)
starts_with(s, prefix) == Len(s) >= Len(prefix) /\ SubSeq(s, 1, Len(prefix)) = prefix

\* A match that forgets to ask for the leading "." of the queried name.
section_matches_loose(section_name, name) ==
    section_name = name
    \/ (starts_with(section_name, <<"_", "_">>)
        /\ SubSeq(section_name, 3, Len(section_name)) = SubSeq(name, 2, Len(name)))

section_matches(section_name, name) ==
    section_name = name
    \/ (starts_with(section_name, <<"_", "_">>)
        /\ starts_with(name, <<".">>)
        /\ SubSeq(section_name, 3, Len(section_name)) = SubSeq(name, 2, Len(name)))

\* Section::data: the section's byte range of the image, Err when it does
\* not lie inside the data.
section_data(o, section) ==
    IF section.offset + section.size <= o.data.size
    THEN Some([offset |-> section.offset, size |-> section.size])
    ELSE None

section(o, name) ==
    IF o.dwarf = None THEN None
    ELSE LET dwarf == o.dwarf[1]
             hit(i) == section_matches(dwarf[i].name, name)
         IN IF \E i \in 1..Len(dwarf) : hit(i)
            THEN section_data(o, dwarf[CHOOSE i \in 1..Len(dwarf) :
                                            hit(i) /\ \A j \in 1..(i - 1) : ~hit(j)])
            ELSE None

(***************************************************************************)
(* Object::search_symtab                                                   *)
(***************************************************************************)
\* slice::binary_search_by_key on the addresses: [found, index].  With
\* several matches any of them may be returned; without one, the index
\* where the key could be inserted keeping the order.
binary_search_by_key(s, addr) ==
    IF \E i \in 1..Len(s) : s[i][2] = addr
    THEN {[found |-> TRUE, index |-> i - 1] : i \in {j \in 1..Len(s) : s[j][2] = addr}}
    ELSE {[found |-> FALSE, index |-> Cardinality({j \in 1..Len(s) : s[j][2] < addr})]}

\* i.checked_sub(1)
checked_sub(i, n) == IF i >= n THEN Some(i - n) ELSE None

\* An index that is not stepped back when the key was not found.
symtab_index_no_sub(r) == Some(r.index)

\* The Option of the index search_symtab settles on, given one result r of
\* the binary search.
symtab_index(r) == IF r.found THEN Some(r.index) ELSE checked_sub(r.index, 1)

search_symtab(o, addr) ==
    {LET i == symtab_index(r)
     IN IF i = None THEN None
        ELSE IF i[1] < Len(o.syms) THEN Some(o.syms[i[1] + 1][1]) ELSE None :
        r \in binary_search_by_key(o.syms, addr)}

(***************************************************************************)
(* object_mapping and Object::search_object_map                            *)
(*                                                                         *)
(* The filesystem maps a path to an Option of [archive, file, members]:    *)
(* None when the file cannot be mapped; archive whether the bytes parse    *)
(* as an ar archive, members then being its member list ([ok, name,        *)
(* file], ok FALSE when members.next() returns Err there); file the bytes  *)
(* as find_header sees them.                                               *)
(***************************************************************************)
AddrModulus == 2 ^ AddrBits
wrapping_sub(a, b) == (a - b + AddrModulus) % AddrModulus
\* An addition that does not wrap.
plain_add(a, b) == a + b
wrapping_add(a, b) == (a + b) % AddrModulus

\* super::mmap(path)
mmap(fsys, p) == IF p \in DOMAIN fsys THEN fsys[p] ELSE None

\* macho.endian(): the header must be in the byte order of NativeEndian.
endian_ok(macho) == macho.magic \in {"MH_MAGIC", "MH_MAGIC_64"}

\* find_header, endian, Object::parse, super::cx and mk!(Mapping {..}) on
\* mapped bytes: the tail both branches of object_mapping share.  The set
\* of possible results, each an Option of a Mapping.
mapping_of_bytes(t, f) ==
    LET found == find_header(t, f) IN
    IF found = None THEN {None}
    ELSE IF ~endian_ok(found[1].macho) THEN {None}
    ELSE {IF o = None THEN None
          ELSE IF found[1].macho.image.cx_ok THEN Some([object |-> o[1]]) ELSE None :
            o \in Object_parse(found[1].macho.image,
                               [offset |-> found[1].offset, size |-> found[1].size])}

\* while let Ok(Some(member)) = members.next(): the first member, from i
\* on, that ends the loop: one that cannot be read, or the one named name.
RECURSIVE scan_members(_, _, _, _)
scan_members(t, members, name, i) ==
    IF i > Len(members) THEN {None}
    ELSE IF ~members[i].ok THEN {None}
    ELSE IF members[i].name = name THEN mapping_of_bytes(t, members[i].file)
    ELSE scan_members(t, members, name, i + 1)

object_mapping(t, fsys, p) ==
    LET parts == split_archive_path(p) IN
    IF parts # None
    THEN LET map == mmap(fsys, parts[1][1]) IN
         IF map = None THEN {None}
         ELSE IF ~map[1].archive THEN {None}
         ELSE scan_members(t, map[1].members, parts[1][2], 1)
    ELSE LET map == mmap(fsys, p) IN
         IF map = None THEN {None} ELSE mapping_of_bytes(t, map[1].file)

\* ObjectMap::get(addr): the entry with the greatest address <= addr, if
\* addr lies within its size (a size of 0 is unbounded).  The entries are
\* kept sorted by address.
ObjectMap_get(map, addr) ==
    LET below == {i \in 1..Len(map.symbols) : map.symbols[i].address <= addr} IN
    IF below = {} THEN None
    ELSE LET entry == map.symbols[CHOOSE i \in below : \A j \in below : j <= i] IN
         IF entry.size = 0 \/ wrapping_sub(addr, entry.address) < entry.size
         THEN Some(entry) ELSE None

\* for object_symbol in &cx.object.syms: the first symbol named name.
find_object_symbol(syms, name) ==
    LET hit(i) == syms[i][1] = name IN
    IF \E i \in 1..Len(syms) : hit(i)
    THEN Some(syms[CHOOSE i \in 1..Len(syms) : hit(i) /\ \A j \in 1..(i - 1) : ~hit(j)])
    ELSE None

\* A slot that memoizes successes only.
fill_slot_on_success(slot, r) == IF slot = None /\ r # None THEN Some(r) ELSE slot

\* The cache slot after the lookup of object_index: filled, when it is
\* None, with whatever object_mapping returns (r), and left alone otherwise.
fill_slot(slot, r) == IF slot = None THEN Some(r) ELSE slot

\* What the tail of search_object_map returns, given the slot and the symbol.
translate(slot, symbol, addr) ==
    IF slot = None THEN None
    ELSE IF slot[1] = None THEN None
    ELSE LET cx == slot[1][1]
             object_symbol == find_object_symbol(cx.object.syms, symbol.name)
         IN IF object_symbol = None THEN None
            ELSE Some([cx |-> cx,
                       addr |-> wrapping_add(wrapping_sub(addr, symbol.address),
                                             object_symbol[1][2])])

\* search_object_map(addr) on Object o: the set of possible outcomes
\* [object, ret, mapped]: the Object afterwards, the value returned, and
\* Some(i) when object_mapping ran for object index i.
search_object_map(t, fsys, o, addr) ==
    LET same == {[object |-> o, ret |-> None, mapped |-> None]} IN
    IF o.object_map = None THEN same
    ELSE LET object_map == o.object_map[1]
             symbol == ObjectMap_get(object_map, addr)
         IN IF symbol = None THEN same
            ELSE LET object_index == symbol[1].object_index IN
                 IF object_index >= Len(o.object_mappings) THEN same
                 ELSE LET slot == o.object_mappings[object_index + 1] IN
                      IF slot # None
                      THEN {[object |-> o, ret |-> translate(slot, symbol[1], addr),
                             mapped |-> None]}
                      ELSE IF object_index >= Len(object_map.objects) THEN same
                      ELSE {LET filled == fill_slot(slot, r) IN
                            [object |-> [o EXCEPT !.object_mappings[object_index + 1] = filled],
                             ret |-> translate(filled, symbol[1], addr),
                             mapped |-> Some(object_index)] :
                               r \in object_mapping(t, fsys, object_map.objects[object_index + 1])}

(***************************************************************************)
(* Mapping::new                                                            *)
(*                                                                         *)
(* exe is what mmap gives for the target.  parent is what                  *)
(* parent.read_dir() gives: None (Err), or the entries in iteration        *)
(* order, each [ok, name, dwarf]: ok FALSE when the iterator yields Err    *)
(* there; name the file name (None when it is not UTF-8); dwarf what       *)
(* read_dir gives for <entry>/Contents/Resources/DWARF, None (Err) or      *)
(* the candidates in iteration order, each [ok, map] (map what mmap gives  *)
(* for the candidate).  A Mapping is [from, object]: from <<0, 0>> for     *)
(* the target's own bytes and <<i, j>> for candidate j of entry i.         *)
(***************************************************************************)
ends_with(s, suffix) ==
    Len(s) >= Len(suffix) /\ SubSeq(s, Len(s) - Len(suffix) + 1, Len(s)) = suffix

\* A comparison that lets every candidate through.
uuid_differs_never(entry_uuid, uuid) == FALSE

\* entry_uuid != uuid
uuid_differs(entry_uuid, uuid) == entry_uuid # uuid

\* macho.uuid(endian, data).ok()??  uuid() walks the load commands, so it
\* is Err when load_commands() is.
uuid_of(macho) ==
    IF ~macho.image.lc_ok \/ macho.image.uuid \in {"none", "err"} THEN None
    ELSE Some(macho.image.uuid)

\* Object::parse(macho, endian, data) followed by super::cx: the possible
\* Options of a parsed Object that the Context builder accepted.
parse_and_cx(found) ==
    {IF o = None THEN None ELSE IF found.macho.image.cx_ok THEN o ELSE None :
        o \in Object_parse(found.macho.image, [offset |-> found.offset, size |-> found.size])}

\* load_dsym(dir, uuid) from candidate j on; i is the entry the directory
\* belongs to.
RECURSIVE load_dsym_from(_, _, _, _, _)
load_dsym_from(t, cands, j, uuid, i) ==
    IF j > Len(cands) THEN {None}
    ELSE IF ~cands[j].ok THEN {None}
    ELSE IF cands[j].map = None THEN {None}
    ELSE LET found == find_header(t, cands[j].map[1]) IN
         IF found = None THEN {None}
         ELSE IF ~endian_ok(found[1].macho) THEN {None}
         ELSE LET entry_uuid == uuid_of(found[1].macho) IN
              IF entry_uuid = None THEN {None}
              ELSE IF uuid_differs(entry_uuid[1], uuid) THEN load_dsym_from(t, cands, j + 1, uuid, i)
              ELSE UNION {IF cx # None
                          THEN {Some([from |-> <<i, j>>, object |-> cx[1]])}
                          ELSE load_dsym_from(t, cands, j + 1, uuid, i) :
                             cx \in parse_and_cx(found[1])}

load_dsym(t, dir, uuid, i) ==
    IF dir = None THEN {None} ELSE load_dsym_from(t, dir[1], 1, uuid, i)

\* The fallback after the loop: the target's own Object.
own_mapping(found) ==
    {IF cx = None THEN None ELSE Some([from |-> <<0, 0>>, object |-> cx[1]]) :
        cx \in parse_and_cx(found)}

\* The for loop over the parent directory, from entry i on.
RECURSIVE scan_parent(_, _, _, _, _)
scan_parent(t, entries, i, uuid, found) ==
    IF i > Len(entries) THEN own_mapping(found)
    ELSE LET entry == entries[i] IN
         IF ~entry.ok THEN {None}
         ELSE IF entry.name = None THEN scan_parent(t, entries, i + 1, uuid, found)
         ELSE IF ~ends_with(entry.name[1], <<".dSYM">>)
         THEN scan_parent(t, entries, i + 1, uuid, found)
         ELSE UNION {IF m # None THEN {m} ELSE scan_parent(t, entries, i + 1, uuid, found) :
                        m \in load_dsym(t, entry.dwarf, uuid, i)}

Mapping_new(t, x, dir) ==
    IF x = None THEN {None}
    ELSE LET found == find_header(t, x[1]) IN
         IF found = None THEN {None}
         ELSE IF ~endian_ok(found[1].macho) THEN {None}
         ELSE LET uuid == uuid_of(found[1].macho) IN
              IF uuid = None THEN {None}
              ELSE IF dir = None THEN {None}
              ELSE scan_parent(t, dir[1], 1, uuid[1], found[1])

(***************************************************************************)
(* Inputs: images, load commands and files the specifications draw from.   *)
(***************************************************************************)
NoImage == [is_object |-> FALSE, uuid |-> "none", lc_ok |-> FALSE, cmds |-> <<>>, cx_ok |-> FALSE]
Junk == [magic |-> "JUNK", image |-> NoImage]

Cmd(kind, ok, segname, sections, symbols) ==
    [kind |-> kind, ok |-> ok, segname |-> segname, sections |-> sections, symbols |-> symbols]
Sect(name, offset, size) == [name |-> name, offset |-> offset, size |-> size]
Nlist(name, def, value) == [name |-> name, is_definition |-> def, n_value |-> value]
Symbols(nlists, map) == Some([nlists |-> nlists, map |-> map])

OtherCmd == Cmd("other", TRUE, "", None, None)
ErrorCmd == Cmd("error", FALSE, "", None, None)
SegmentCmd(ok, segname, sections) == Cmd("segment", ok, segname, sections, None)
SymtabCmd(ok, symbols) == Cmd("symtab", ok, "", None, symbols)

\* A thin file holding one image: the image at offset 0 and two more cells.
ThinFile(magic, image) ==
    [cells |-> <<[magic |-> magic, image |-> image], Junk, Junk>>, nfat |-> 0, archs |-> <<>>]
\* The whole of such a file, as find_header hands it on.
WholeData == [offset |-> 0, size |-> Len(ThinFile("JUNK", NoImage).cells)]

SplitIdle == path = <<>> /\ split = None
HdrIdle == file = ThinFile("JUNK", NoImage) /\ header = None
ObjIdle ==
    /\ mach = NoImage /\ object = None /\ query = <<>> /\ ret = None
    /\ fs = <<>> /\ calls = <<>>
NewIdle == exe = None /\ parent = <<>> /\ mapping = None

(***************************************************************************)
(* SpecSplit: split_archive_path on every short path.                      *)
(***************************************************************************)
InitSplit ==
    /\ target \in {[arch |-> "aarch64", width |-> 64]}
    /\ done = ""
    /\ path \in Paths(MaxPathLen) /\ split = None
    /\ HdrIdle /\ ObjIdle /\ NewIdle

SplitArchivePath ==
    /\ done = ""
    /\ split' = split_archive_path(path)
    /\ done' = "split_archive_path"
    /\ UNCHANGED <<target, path, hdrVars, objVars, newVars>>

NextSplit == SplitArchivePath
SpecSplit == InitSplit /\ [][NextSplit]_vars

(***************************************************************************)
(* SpecHdr: find_header on thin, fat and foreign files, for every target.  *)
(***************************************************************************)
Arch(cputype, offset, size) == [cputype |-> cputype, offset |-> offset, size |-> size]
\* The slices a descriptor may name in a three-cell file: the last is out of range.
ArchSlices == {<<1, 1>>, <<2, 1>>, <<2, 2>>}
ArchDescs == {Arch(c, sl[1], sl[2]) : c \in CpuTypes, sl \in ArchSlices}
Thin32 == [magic |-> "MH_MAGIC", image |-> NoImage]
Thin64 == [magic |-> "MH_MAGIC_64", image |-> NoImage]
FatBodies == {<<Thin64, Thin32>>, <<Junk, Thin64>>}
OtherMagics == {"JUNK", "AR_MAGIC"}

\* The files whose fat header declares, and holds, at most n descriptors.
HdrFiles(n) ==
    {[cells |-> <<>>, nfat |-> 0, archs |-> <<>>]}
    \cup {ThinFile(m, NoImage) : m \in ThinMagics \cup OtherMagics}
    \cup {[cells |-> <<[magic |-> m, image |-> NoImage]>> \o body, nfat |-> k, archs |-> a] :
            m \in Fat32Magics \cup Fat64Magics, body \in FatBodies,
            k \in 0..n, a \in SeqsUpTo(ArchDescs, n)}

InitHdr ==
    /\ target \in Targets
    /\ done = ""
    /\ file \in HdrFiles(MaxArch) /\ header = None
    /\ SplitIdle /\ ObjIdle /\ NewIdle

FindHeader ==
    /\ done = ""
    /\ header' = find_header(target, file)
    /\ done' = "find_header"
    /\ UNCHANGED <<target, file, splitVars, objVars, newVars>>

NextHdr == FindHeader
SpecHdr == InitHdr /\ [][NextHdr]_vars

(***************************************************************************)
(* SpecParse: Object::parse on every short load-command list.              *)
(***************************************************************************)
F == <<"f">>
G == <<"g">>
DebugInfo == Sect(<<"_", "_", "i">>, 0, 1)
DebugLine == Sect(<<"_", "_", "l">>, 1, 2)
OneMap == [symbols |-> <<>>, objects |-> << <<"a">> >>]

ParseCmds ==
    { OtherCmd, ErrorCmd,
      SegmentCmd(FALSE, "__DWARF", None),
      SegmentCmd(TRUE, "__DWARF", Some(<<DebugInfo>>)),
      SegmentCmd(TRUE, "__DWARF", None),
      SegmentCmd(TRUE, "", Some(<<DebugLine>>)),
      SegmentCmd(TRUE, "__TEXT", Some(<<>>)),
      SymtabCmd(FALSE, None),
      SymtabCmd(TRUE, None),
      SymtabCmd(TRUE, Symbols(<<Nlist(Some(G), TRUE, 3), Nlist(Some(F), TRUE, 1)>>, OneMap)) }

\* The images of at most n load commands.
ParseImages(n) ==
    {[is_object |-> o, uuid |-> "none", lc_ok |-> l, cmds |-> c, cx_ok |-> TRUE] :
        o \in BOOLEAN, l \in BOOLEAN, c \in SeqsUpTo(ParseCmds, n)}

InitParse ==
    /\ target \in {[arch |-> "aarch64", width |-> 64]}
    /\ done = ""
    /\ mach \in ParseImages(MaxCmds)
    /\ object = None /\ query = <<>> /\ ret = None /\ fs = <<>> /\ calls = <<>>
    /\ SplitIdle /\ HdrIdle /\ NewIdle

\* Object::parse(mach, endian, data) on the image under inspection.
Parse ==
    /\ done = ""
    /\ object' \in Object_parse(mach, WholeData)
    /\ done' = "parse"
    /\ UNCHANGED <<target, mach, query, ret, fs, calls, splitVars, hdrVars, newVars>>

NextParse == Parse
SpecParse == InitParse /\ [][NextParse]_vars

(***************************************************************************)
(* SpecSymtab: search_symtab on the symbol table of every short nlist      *)
(* list.                                                                   *)
(***************************************************************************)
SymAddrs == {1, 3, 5}
SymtabNlists ==
    {Nlist(Some(n), TRUE, a) : n \in {F, G}, a \in SymAddrs}
    \cup {Nlist(Some(<<>>), TRUE, 1), Nlist(Some(F), FALSE, 3), Nlist(None, TRUE, 5)}
QueryAddrs == 0..6

\* The images whose symbol table holds at most n entries.
SymtabImages(n) ==
    {[is_object |-> TRUE, uuid |-> "none", lc_ok |-> TRUE,
      cmds |-> <<SymtabCmd(TRUE, Symbols(l, NoMap))>>, cx_ok |-> TRUE] :
        l \in SeqsUpTo(SymtabNlists, n)}

InitSymtab ==
    /\ target \in {[arch |-> "aarch64", width |-> 64]}
    /\ done = ""
    /\ mach \in SymtabImages(MaxSyms)
    /\ object = None /\ query = 0 /\ ret = None /\ fs = <<>> /\ calls = <<>>
    /\ SplitIdle /\ HdrIdle /\ NewIdle

SearchSymtab(addr) ==
    /\ done # "" /\ object # None
    /\ ret' \in search_symtab(object[1], addr)
    /\ query' = addr
    /\ done' = "search_symtab"
    /\ UNCHANGED <<target, mach, object, fs, calls, splitVars, hdrVars, newVars>>

NextSymtab == Parse \/ \E addr \in QueryAddrs : SearchSymtab(addr)
SpecSymtab == InitSymtab /\ [][NextSymtab]_vars

(***************************************************************************)
(* SpecSection: Object::section on every short DWARF section table.        *)
(***************************************************************************)
SectNames ==
    { <<"_", "_", "i">>, <<"_", "_", "l">>, <<".", "i">>, <<"i">>, <<"_", "_">>,
      <<"_", "_", "_", "i">> }
\* The last range does not lie inside a three-cell image.
SectRanges == {<<0, 1>>, <<1, 2>>, <<2, 2>>}
Sections == {Sect(n, r[1], r[2]) : n \in SectNames, r \in SectRanges}
QueryNames ==
    { <<".", "i">>, <<"_", "_", "i">>, <<".", "l">>, <<"i">>, <<".">>, <<".", "_", "i">>,
      <<"_", "_">>, <<>> }

\* The images whose DWARF segment holds at most n sections.
SectionImages(n) ==
    {[is_object |-> FALSE, uuid |-> "none", lc_ok |-> TRUE, cmds |-> c, cx_ok |-> TRUE] :
        c \in {<<>>, <<SegmentCmd(TRUE, "__DWARF", None)>>}
              \cup {<<SegmentCmd(TRUE, "__DWARF", Some(t))>> : t \in SeqsUpTo(Sections, n)}}

InitSection ==
    /\ target \in {[arch |-> "aarch64", width |-> 64]}
    /\ done = ""
    /\ mach \in SectionImages(MaxSects)
    /\ object = None /\ query = <<>> /\ ret = None /\ fs = <<>> /\ calls = <<>>
    /\ SplitIdle /\ HdrIdle /\ NewIdle

Section(name) ==
    /\ done # "" /\ object # None
    /\ ret' = section(object[1], name)
    /\ query' = name
    /\ done' = "section"
    /\ UNCHANGED <<target, mach, object, fs, calls, splitVars, hdrVars, newVars>>

NextSection == Parse \/ \E name \in QueryNames : Section(name)
SpecSection == InitSection /\ [][NextSection]_vars

(***************************************************************************)
(* Spec: a linked image with a debug map; search_object_map calls          *)
(* interleaved with changes of the files the map names.                    *)
(***************************************************************************)
PA == <<"a">>
PL == <<"l">>
PLB == <<"l", "(", "b", ")">>
B == <<"b">>
X == <<"x">>

Entry(name, address, size, object_index) ==
    [name |-> name, address |-> address, size |-> size, object_index |-> object_index]
MapEntries(n) ==
    {e \in {Entry(F, 2, 0, 0), Entry(F, 2, 2, 0), Entry(G, 5, 0, 1), Entry(G, 5, 2, 0),
            Entry(F, 5, 0, 1)} : e.object_index < n}
ObjectLists == {<<PA>>, <<PA, PLB>>, <<PLB, PA>>}
\* The symbol lists of at most k entries, ascending by address, of a map of n objects.
MapSymbols(n, k) ==
    {q \in SeqsUpTo(MapEntries(n), k) :
        \A i \in 1..(Len(q) - 1) : q[i].address < q[i + 1].address}
ObjectMaps(k) ==
    UNION {{[symbols |-> sy, objects |-> ob] : sy \in MapSymbols(Len(ob), k)} : ob \in ObjectLists}

MainNlists == <<Nlist(Some(G), TRUE, 5), Nlist(Some(F), TRUE, 2)>>
MapImages(k) ==
    {[is_object |-> TRUE, uuid |-> "U1", lc_ok |-> TRUE,
      cmds |-> <<SymtabCmd(TRUE, Symbols(MainNlists, OneMap))>>, cx_ok |-> TRUE]}
    \cup {[is_object |-> FALSE, uuid |-> "U1", lc_ok |-> TRUE,
           cmds |-> <<SymtabCmd(TRUE, Symbols(MainNlists, m))>>, cx_ok |-> TRUE] :
            m \in ObjectMaps(k)}

ObjImage(nlists, cx_ok) ==
    [is_object |-> TRUE, uuid |-> "none", lc_ok |-> TRUE,
     cmds |-> <<SymtabCmd(TRUE, Symbols(nlists, NoMap))>>, cx_ok |-> cx_ok]
\* Two versions of a compiled object: g at 7 and f at 1; f at 6 and at 3.
ObjV1 == ObjImage(<<Nlist(Some(G), TRUE, 7), Nlist(Some(F), TRUE, 1)>>, TRUE)
ObjV2 == ObjImage(<<Nlist(Some(F), TRUE, 6), Nlist(Some(F), TRUE, 3)>>, TRUE)
ObjNoCx == ObjImage(<<Nlist(Some(F), TRUE, 1)>>, FALSE)
FatFile(image) ==
    [cells |-> <<[magic |-> "FAT_MAGIC", image |-> NoImage],
                 [magic |-> "MH_MAGIC_64", image |-> image], Junk>>,
     nfat |-> 2,
     archs |-> <<Arch("CPU_TYPE_X86_64", 2, 1), Arch("CPU_TYPE_ARM64", 1, 2)>>]
JunkFile == ThinFile("JUNK", NoImage)
ArBytes == ThinFile("AR_MAGIC", NoImage)

Plain(f) == Some([archive |-> FALSE, file |-> f, members |-> <<>>])
Archive(members) == Some([archive |-> TRUE, file |-> ArBytes, members |-> members])
Member(ok, name, f) == [ok |-> ok, name |-> name, file |-> f]

PlainContents ==
    {None, Plain(ThinFile("MH_MAGIC_64", ObjV1)), Plain(ThinFile("MH_MAGIC_64", ObjV2)),
     Plain(ThinFile("MH_MAGIC_64", ObjNoCx))}
ArchiveContents ==
    {None, Plain(JunkFile),
     Archive(<<Member(TRUE, X, ThinFile("MH_MAGIC_64", ObjV2)), Member(TRUE, B, FatFile(ObjV1))>>),
     Archive(<<Member(FALSE, X, JunkFile), Member(TRUE, B, ThinFile("MH_MAGIC_64", ObjV1))>>)}
Filesystems == {(PA :> a) @@ (PL :> l) : a \in PlainContents, l \in ArchiveContents}

Init ==
    /\ target \in {[arch |-> "aarch64", width |-> 64]}
    /\ done = ""
    /\ mach \in MapImages(MaxMapSyms)
    /\ fs \in Filesystems
    /\ object = None /\ query = 0 /\ ret = None
    /\ calls = <<0, 0>>
    /\ SplitIdle /\ HdrIdle /\ NewIdle

SearchObjectMap(addr) ==
    /\ done # "" /\ object # None
    /\ \E out \in search_object_map(target, fs, object[1], addr) :
          /\ object' = Some(out.object)
          /\ ret' = out.ret
          /\ calls' = IF out.mapped = None THEN calls
                      ELSE [calls EXCEPT ![out.mapped[1] + 1] = Min(@ + 1, MaxCalls)]
    /\ query' = addr
    /\ done' = "search_object_map"
    /\ UNCHANGED <<target, mach, fs, splitVars, hdrVars, newVars>>

\* The environment: a file the debug map names appears, vanishes or changes.
FsChange ==
    /\ done # ""
    /\ \E next \in Filesystems :
          /\ \E p \in DOMAIN fs : next[p] # fs[p] /\ \A q \in DOMAIN fs \ {p} : next[q] = fs[q]
          /\ fs' = next
    /\ done' = "fs_change"
    /\ UNCHANGED <<target, mach, object, query, ret, calls, splitVars, hdrVars, newVars>>

Next == Parse \/ (\E addr \in 0..(AddrModulus - 1) : SearchObjectMap(addr)) \/ FsChange
Spec == Init /\ [][Next]_vars

(***************************************************************************)
(* SpecNew: Mapping::new on a target and every small parent directory.     *)
(***************************************************************************)
DebugImage(uuid, segment_ok, cx_ok) ==
    [is_object |-> FALSE, uuid |-> uuid, lc_ok |-> TRUE,
     cmds |-> <<SegmentCmd(segment_ok, "__DWARF", Some(<<DebugInfo>>))>>, cx_ok |-> cx_ok]
Cand(ok, map) == [ok |-> ok, map |-> map]
Candidates ==
    { Cand(FALSE, None),                                                  \* the iterator fails
      Cand(TRUE, Some(JunkFile)),                                         \* not a Mach-O
      Cand(TRUE, Some(ThinFile("MH_MAGIC_64", DebugImage("none", TRUE, TRUE)))),  \* no UUID
      Cand(TRUE, Some(ThinFile("MH_MAGIC_64", DebugImage("U2", TRUE, TRUE)))),    \* another UUID
      Cand(TRUE, Some(ThinFile("MH_MAGIC_64", DebugImage("U1", TRUE, TRUE)))),    \* the UUID
      Cand(TRUE, Some(ThinFile("MH_MAGIC_64", DebugImage("U1", TRUE, FALSE)))) }  \* the UUID, no Context

DirEntry(ok, name, dwarf) == [ok |-> ok, name |-> name, dwarf |-> dwarf]
\* The entries of the parent directory that hold n files in all (a bundle
\* counts for one more than its candidates).
EntriesOfWeight(n) ==
    IF n = 1
    THEN { DirEntry(FALSE, None, None), DirEntry(TRUE, None, None),
           DirEntry(TRUE, Some(<<"x">>), None), DirEntry(TRUE, Some(<<"x", ".dSYM">>), None),
           DirEntry(TRUE, Some(<<"x", ".dSYM">>), Some(<<>>)) }
    ELSE {DirEntry(TRUE, Some(<<"x", ".dSYM">>), Some(c)) : c \in [1..(n - 1) -> Candidates]}

\* The directory listings that hold exactly n files in all.
RECURSIVE ListingsOfWeight(_)
ListingsOfWeight(n) ==
    IF n = 0 THEN {<<>>}
    ELSE UNION {{<<e>> \o rest : e \in EntriesOfWeight(w), rest \in ListingsOfWeight(n - w)} :
                    w \in 1..n}

\* The directory listings that hold at most n files in all.
Listings(n) == UNION {ListingsOfWeight(k) : k \in 0..n}

ExeFiles ==
    { None, Some(JunkFile),
      Some(ThinFile("MH_MAGIC_64", DebugImage("none", TRUE, TRUE))),
      Some(ThinFile("MH_MAGIC_64", DebugImage("U1", TRUE, TRUE))),
      Some(FatFile(DebugImage("U1", TRUE, TRUE))),
      Some(ThinFile("MH_MAGIC_64", DebugImage("U1", FALSE, TRUE))) }      \* a segment does not decode

InitNew ==
    /\ target \in {[arch |-> "aarch64", width |-> 64]}
    /\ done = ""
    /\ exe \in ExeFiles
    /\ parent \in {None} \cup {Some(l) : l \in Listings(MaxFiles)}
    /\ mapping = None
    /\ SplitIdle /\ HdrIdle /\ ObjIdle

MappingNew ==
    /\ done = ""
    /\ mapping' \in Mapping_new(target, exe, parent)
    /\ done' = "Mapping::new"
    /\ UNCHANGED <<target, exe, parent, splitVars, hdrVars, objVars>>

NextNew == MappingNew
SpecNew == InitNew /\ [][NextNew]_vars

(***************************************************************************)
(*                              The claims                                 *)
(***************************************************************************)
Range(s) == {s[i] : i \in 1..Len(s)}
\* The least element of a non-empty set of pairs, in scan (lexicographic) order.
Before(a, b) == a[1] < b[1] \/ (a[1] = b[1] /\ a[2] <= b[2])
FirstOf(S) == CHOOSE a \in S : \A b \in S : Before(a, b)

\* C1 (SpecSymtab): the symbol table Object::parse builds is ascending by
\* address, and search_symtab(addr) returns the name of a symbol whose
\* address is the greatest stored address <= addr; it returns nothing
\* exactly when the table is empty or addr is below every stored address.
C1_SearchSymtabFloor ==
    (done # "" /\ object # None) =>
        LET syms == object[1].syms
            below == {i \in 1..Len(syms) : syms[i][2] <= query}
        IN /\ \A i \in 1..(Len(syms) - 1) : syms[i][2] <= syms[i + 1][2]
           /\ done = "search_symtab" =>
                /\ ret = None <=> below = {}
                /\ ret # None =>
                      \E i \in below : /\ syms[i][1] = ret[1]
                                       /\ \A j \in below : syms[j][2] <= syms[i][2]

\* A lookup that falls between two stored addresses of a table of three
\* symbols, two of them sharing an address.
C1_Witness ==
    /\ done = "search_symtab" /\ ret # None
    /\ Len(object[1].syms) = 3
    /\ object[1].syms[1][2] = object[1].syms[2][2]
    /\ object[1].syms[3][2] > query
    /\ object[1].syms[2][2] < query

\* C4 (SpecHdr): on a fat container find_header selects the first
\* descriptor, among the nfat declared, whose CPU type is that of the
\* running architecture and parses exactly the bytes of its (offset, size)
\* range; it fails when no descriptor matches, with no fallback; and any
\* magic other than thin or fat Mach-O fails.
RunningCpu ==
    IF target.arch = "x86" THEN {"CPU_TYPE_X86"}
    ELSE IF target.arch = "x86_64" THEN {"CPU_TYPE_X86_64"}
    ELSE IF target.arch = "arm" THEN {"CPU_TYPE_ARM"}
    ELSE IF target.arch = "aarch64" THEN {"CPU_TYPE_ARM64"}
    ELSE {}
FileMagic == IF Len(file.cells) = 0 THEN "" ELSE file.cells[1].magic
IsFat == FileMagic \in {"FAT_MAGIC", "FAT_CIGAM", "FAT_MAGIC_64", "FAT_CIGAM_64"}
IsThin == FileMagic \in {"MH_MAGIC", "MH_CIGAM", "MH_MAGIC_64", "MH_CIGAM_64"}
MatchingArchs ==
    {i \in 1..Len(file.archs) : i <= file.nfat /\ file.archs[i].cputype \in RunningCpu}
C4_FindHeaderSlice ==
    done = "find_header" =>
        /\ (~IsFat /\ ~IsThin) => header = None
        /\ (IsFat /\ MatchingArchs = {}) => header = None
        /\ (IsFat /\ header # None) =>
              LET arch == file.archs[CHOOSE i \in MatchingArchs : \A j \in MatchingArchs : i <= j]
              IN /\ header[1].offset = arch.offset
                 /\ header[1].size = arch.size
                 /\ arch.offset + arch.size <= Len(file.cells)
                 /\ header[1].macho = file.cells[arch.offset + 1]
        /\ (IsThin /\ header # None) =>
              /\ header[1].offset = 0 /\ header[1].size = Len(file.cells)
              /\ header[1].macho = file.cells[1]

\* A fat file whose second descriptor is the running architecture's, the
\* first being another's: the second slice is the one returned.
C4_Witness ==
    /\ done = "find_header" /\ IsFat /\ header # None
    /\ Len(file.archs) = 2 /\ MatchingArchs = {2}
    /\ header[1].offset = file.archs[2].offset
    /\ file.archs[1].offset # file.archs[2].offset

\* C6 (SpecSplit): split_archive_path(path) returns (archive, member) with
\* archive the bytes before the first "(" and member the bytes between
\* that "(" and a final ")", so that archive + "(" + member + ")" = path;
\* it returns nothing exactly when path holds no "(" or does not end in ")".
C6_SplitArchivePath ==
    done = "split_archive_path" =>
        /\ split = None <=>
              ("(" \notin Range(path) \/ Len(path) = 0 \/ path[Len(path)] # ")")
        /\ split # None =>
              /\ split[1][1] \o <<"(">> \o split[1][2] \o <<")">> = path
              /\ "(" \notin Range(split[1][1])
        /\ path = <<"a", "(", "b", ")">> => split = Some(<< <<"a">>, <<"b">> >>)
        /\ path = <<"b">> => split = None

\* "a(b)" was split into "a" and "b".
C6_Witness ==
    /\ done = "split_archive_path"
    /\ path = <<"a", "(", "b", ")">>
    /\ split = Some(<< <<"a">>, <<"b">> >>)

\* The match rule of section(), stated on the bytes of the two names.
NamesMatch(stored, asked) ==
    \/ stored = asked
    \/ /\ Len(stored) >= 2 /\ stored[1] = "_" /\ stored[2] = "_"
       /\ Len(asked) >= 1 /\ asked[1] = "."
       /\ Len(stored) - 2 = Len(asked) - 1
       /\ \A k \in 1..(Len(asked) - 1) : stored[k + 2] = asked[k + 1]
FirstMatch(table, asked) ==
    CHOOSE i \in 1..Len(table) :
        NamesMatch(table[i].name, asked) /\ \A j \in 1..(i - 1) : ~NamesMatch(table[j].name, asked)
NoMatch(o, asked) ==
    o.dwarf = None \/ \A i \in 1..Len(o.dwarf[1]) : ~NamesMatch(o.dwarf[1][i].name, asked)
BytesOf(sect) == Some([offset |-> sect.offset, size |-> sect.size])

\* C5 as stated (SpecSection): section(name) returns the bytes of the
\* first DWARF-table section whose name matches name (exactly, or "__"
\* against "."), so that a section stored as __debug_info yields the same
\* bytes under .debug_info and __debug_info; and nothing when there is no
\* table or no match.
C5_SectionAsStated ==
    (done # "" /\ object # None) =>
        /\ done = "section" =>
              ret = IF NoMatch(object[1], query) THEN None
                    ELSE BytesOf(object[1].dwarf[1][FirstMatch(object[1].dwarf[1], query)])
        /\ (done = "section" /\ object[1].dwarf # None
            /\ \E k \in 1..Len(object[1].dwarf[1]) : object[1].dwarf[1][k].name = <<"_", "_", "i">>)
              => /\ section(object[1], <<".", "i">>) = section(object[1], <<"_", "_", "i">>)
                 /\ section(object[1], <<".", "i">>) # None

\* C5 as amended (SpecSection): the bytes of the first matching section
\* are returned when its byte range lies inside the image, and nothing
\* otherwise; a section stored as __debug_info yields the same result under
\* both names when no earlier entry is named .debug_info; nothing is
\* returned when there is no table or no match.
C5_SectionAmended ==
    (done # "" /\ object # None) =>
        /\ done = "section" =>
              ret = IF NoMatch(object[1], query) THEN None
                    ELSE LET sect == object[1].dwarf[1][FirstMatch(object[1].dwarf[1], query)]
                         IN IF sect.offset + sect.size <= object[1].data.size
                            THEN BytesOf(sect) ELSE None
        /\ (done = "section" /\ object[1].dwarf # None
            /\ \E k \in 1..Len(object[1].dwarf[1]) :
                  /\ object[1].dwarf[1][k].name = <<"_", "_", "i">>
                  /\ \A j \in 1..(k - 1) : object[1].dwarf[1][j].name # <<".", "i">>)
              => section(object[1], <<".", "i">>) = section(object[1], <<"_", "_", "i">>)

\* The second of two sections, stored as "__i", was found under ".i".
C5_Witness ==
    /\ done = "section" /\ query = <<".", "i">> /\ ret # None
    /\ Len(object[1].dwarf[1]) = 2
    /\ object[1].dwarf[1][1].name = <<"_", "_", "l">>
    /\ object[1].dwarf[1][2].name = <<"_", "_", "i">>
    /\ ret = BytesOf(object[1].dwarf[1][2])

\* The steps of the load-command scan that the code gives up on.
Aborts(c) ==
    \/ c.kind = "segment" /\ ~c.ok
    \/ c.kind = "symtab" /\ (~c.ok \/ c.symbols = None)
\* The other steps that can fail: the next command cannot be read, or the
\* section table of a DWARF segment cannot.
IsDwarfSegment(c) ==
    c.kind = "segment" /\ c.ok /\ (c.segname = "__DWARF" \/ (mach.is_object /\ c.segname = ""))
FailsQuietly(c) == c.kind = "error" \/ (IsDwarfSegment(c) /\ c.sections = None)
\* The commands the scan reaches: those before the first unreadable one.
Scanned == {i \in 1..Len(mach.cmds) : \A j \in 1..i : mach.cmds[j].kind # "error"}

\* C7 as stated (SpecParse): if any step of the scan fails (reading the
\* next load command, decoding a segment command, reading a DWARF
\* segment's section table, decoding the symbol-table command or its
\* symbols) parse returns failure: an Object is returned only when every
\* load command was scanned successfully.
C7_AllOrNothingAsStated ==
    done = "parse" =>
        ((~mach.lc_ok
          \/ \E i \in 1..Len(mach.cmds) :
                /\ \A j \in 1..(i - 1) : ~Aborts(mach.cmds[j]) /\ ~FailsQuietly(mach.cmds[j])
                /\ Aborts(mach.cmds[i]) \/ FailsQuietly(mach.cmds[i]))
            => object = None)

\* C7 as amended (SpecParse): parse returns failure exactly when the
\* load-command iterator cannot be created, or a command the scan reaches
\* is a segment command that does not decode or a symbol-table command
\* that does not decode or whose symbols cannot be read.  A failure to read
\* the next load command ends the scan and the Object gathered so far is
\* returned; a failure to read a DWARF segment's section table leaves the
\* Object without a DWARF section table.
C7_AllOrNothingAmended ==
    done = "parse" =>
        /\ object = None <=> (~mach.lc_ok \/ \E i \in Scanned : Aborts(mach.cmds[i]))
        /\ object # None =>
              LET segs == {i \in Scanned : IsDwarfSegment(mach.cmds[i])}
                  tabs == {i \in Scanned : mach.cmds[i].kind = "symtab"}
              IN /\ object[1].dwarf = IF segs = {} THEN None
                                      ELSE mach.cmds[CHOOSE i \in segs : \A j \in segs : j <= i].sections
                 /\ (tabs = {}) => object[1].syms = <<>>
                 /\ (tabs # {}) => Len(object[1].syms) = 2

\* An Object holding the symbols of the first command was returned although
\* the second command could not be read and the third does not decode.
C7_Witness ==
    /\ done = "parse" /\ object # None
    /\ Len(mach.cmds) = 3
    /\ mach.cmds[1].kind = "symtab" /\ mach.cmds[2].kind = "error" /\ Aborts(mach.cmds[3])
    /\ Len(object[1].syms) = 2

\* The cache slots of the parsed Object (none before it is parsed).
Slots == IF object = None THEN <<>> ELSE object[1].object_mappings
\* The debug-map entry that covers addr: the one with the greatest address
\* <= addr, when addr lies within its size (0: unbounded).
EntryAt(addr) ==
    IF object = None \/ object[1].object_map = None THEN None
    ELSE LET entries == object[1].object_map[1].symbols
             below == {i \in 1..Len(entries) : entries[i].address <= addr}
         IN IF below = {} THEN None
            ELSE LET e == entries[CHOOSE i \in below : \A j \in below : j <= i]
                 IN IF e.size = 0 \/ addr - e.address < e.size THEN Some(e) ELSE None

\* C2 (Spec): a cache slot leaves Unresolved at most once: object_mapping
\* runs at most once for an object index, as many times as the slot was
\* resolved, and a slot that is Resolved(Failure) or Resolved(Context)
\* never changes again, whatever happens to the files.
C2_ResolvedOnce ==
    /\ [](\A i \in 1..Len(Slots) : calls[i] <= 1 /\ (calls[i] = 1 <=> Slots[i] # None))
    /\ [][\A i \in 1..Len(Slots) : Slots[i] # None => Slots'[i] = Slots[i]]_vars

\* A lookup found the slot of "a" Resolved(Failure) and returned nothing,
\* without mapping it again, although the file can now be mapped and parsed.
C2_Witness ==
    /\ done = "search_object_map" /\ ret = None
    /\ EntryAt(query) # None /\ EntryAt(query)[1].object_index = 0
    /\ object[1].object_map[1].objects[1] = PA
    /\ Slots[1] = Some(None) /\ calls[1] = 1
    /\ fs[PA] = Plain(ThinFile("MH_MAGIC_64", ObjV1))

\* C8 (Spec): when search_object_map(addr) finds a debug-map entry (name,
\* L, i) and slot i holds a sub-object, it returns that sub-object's
\* Context and addr - L + A modulo the address width, A being the address
\* of the first symbol of the sub-object named name; it returns nothing
\* when there is no entry, the slot is Resolved(Failure), or no symbol of
\* the sub-object has that name.
C8_TranslatedAddress ==
    done = "search_object_map" =>
        LET e == EntryAt(query) IN
        IF e = None THEN ret = None
        ELSE LET slot == Slots[e[1].object_index + 1] IN
             /\ slot # None
             /\ IF slot[1] = None THEN ret = None
                ELSE LET syms == slot[1][1].object.syms
                         named == {k \in 1..Len(syms) : syms[k][1] = e[1].name}
                     IN IF named = {} THEN ret = None
                        ELSE LET A == syms[CHOOSE k \in named : \A n \in named : k <= n][2]
                             IN ret = Some([cx |-> slot[1][1],
                                            addr |-> (query - e[1].address + A) % (2 ^ AddrBits)])

\* A translation that wrapped around: addr - L + A exceeded the address
\* width, and the sub-object holds two symbols of the entry's name.
C8_Witness ==
    /\ done = "search_object_map" /\ ret # None
    /\ EntryAt(query) # None
    /\ query - EntryAt(query)[1].address + ret[1].cx.object.syms[1][2] >= 2 ^ AddrBits
    /\ ret[1].cx.object.syms[1][1] = ret[1].cx.object.syms[2][1]
    /\ ret[1].addr < query

\* C10 (Spec): the cache has as many slots as the debug map lists objects
\* (none without a debug map), all Unresolved after Object::parse, and a
\* search_object_map call changes no slot but that of the object index it
\* looked up, and never the number of slots.
C10_SlotCount ==
    /\ [](object # None =>
            Len(Slots) = IF object[1].object_map = None THEN 0
                         ELSE Len(object[1].object_map[1].objects))
    /\ [](done = "parse" => \A i \in 1..Len(Slots) : Slots[i] = None)
    /\ [][object # None =>
            /\ Len(Slots') = Len(Slots)
            /\ \A i \in 1..Len(Slots) :
                  Slots'[i] # Slots[i] =>
                      /\ done' = "search_object_map"
                      /\ EntryAt(query') # None
                      /\ EntryAt(query')[1].object_index = i - 1]_vars

\* Of two slots, the second was resolved by the last lookup and the first
\* is still Unresolved.
C10_Witness ==
    /\ done = "search_object_map"
    /\ Len(Slots) = 2 /\ Slots[1] = None /\ Slots[2] # None /\ Slots[2] # Some(None)
    /\ EntryAt(query) # None /\ EntryAt(query)[1].object_index = 1

\* The UUID find_header and uuid() read from mapped bytes: "unreadable"
\* when no native Mach-O header is found, "none" / "err" when the image
\* holds no UUID record or a broken one.
UuidIn(f) ==
    LET found == find_header(target, f) IN
    IF found = None \/ ~endian_ok(found[1].macho) THEN "unreadable"
    ELSE IF ~found[1].macho.image.lc_ok THEN "err"
    ELSE found[1].macho.image.uuid
IsUuid(u) == u \notin {"unreadable", "none", "err"}
\* Whether Object::parse and the Context builder accept the bytes, and the
\* Objects they may give.
ObjectsOf(f) ==
    LET found == find_header(target, f) IN
    IF found = None THEN {} ELSE {r[1] : r \in parse_and_cx(found[1]) \ {None}}

ExeUuid == IF exe = None THEN "unreadable" ELSE UuidIn(exe[1])
\* The *.dSYM entries of the parent directory whose DWARF directory can be
\* listed, and their candidates <<i, j>>.
Bundles ==
    IF parent = None THEN {}
    ELSE {i \in 1..Len(parent[1]) :
            /\ parent[1][i].ok /\ parent[1][i].name # None
            /\ parent[1][i].name[1][Len(parent[1][i].name[1])] = ".dSYM"
            /\ parent[1][i].dwarf # None}
AllCands == UNION {{<<i, j>> : j \in 1..Len(parent[1][i].dwarf[1])} : i \in Bundles}
CandAt(c) == parent[1][c[1]].dwarf[1][c[2]]
CandUuid(c) ==
    IF ~CandAt(c).ok \/ CandAt(c).map = None THEN "unreadable" ELSE UuidIn(CandAt(c).map[1])
Matching == {c \in AllCands : CandUuid(c) = ExeUuid}
CandParses(c) == ObjectsOf(CandAt(c).map[1]) # {}
\* The parent directory can be listed.
ListsCleanly == parent # None /\ \A i \in 1..Len(parent[1]) : parent[1][i].ok
\* No directory iterator fails and every candidate can be mapped.
NoIoErrors ==
    /\ ListsCleanly
    /\ \A c \in AllCands : CandAt(c).ok /\ CandAt(c).map # None
\* Moreover every candidate is a Mach-O with a UUID record.
CleanScan == NoIoErrors /\ \A c \in AllCands : IsUuid(CandUuid(c))

\* C3 as stated (SpecNew), on directories every file of which is a
\* readable Mach-O with a UUID: without a UUID record in the target the
\* result is failure; with UUID U and a candidate of UUID U, the Mapping is
\* built from such a candidate; with no matching candidate, it is built
\* from the target's own sections and symbol table.
C3_MappingNewAsStated ==
    done = "Mapping::new" =>
        /\ ~IsUuid(ExeUuid) => mapping = None
        /\ (IsUuid(ExeUuid) /\ CleanScan) =>
              /\ mapping # None
              /\ IF Matching # {} THEN mapping[1].from \in Matching
                 ELSE mapping[1].from = <<0, 0>>

\* C3 as amended (SpecNew): without a UUID record in the target the result
\* is failure.  A Mapping that is returned is built from the target's own
\* bytes or from those of a candidate whose UUID equals the target's and
\* that parses into a Context.  When the parent directory lists without
\* error and no candidate has the target's UUID, it is built from the
\* target itself, and the result is failure when the target does not parse
\* into a Context.  When every directory entry and candidate can be read
\* and holds a UUID, it is built from the first candidate of the target's
\* UUID that parses into a Context, in scan order, and as before when
\* there is none.
C3_MappingNewAmended ==
    done = "Mapping::new" =>
        /\ ~IsUuid(ExeUuid) => mapping = None
        /\ mapping # None =>
              IF mapping[1].from = <<0, 0>>
              THEN mapping[1].object \in ObjectsOf(exe[1])
              ELSE /\ mapping[1].from \in Matching
                   /\ mapping[1].object \in ObjectsOf(CandAt(mapping[1].from).map[1])
        /\ (IsUuid(ExeUuid) /\ ListsCleanly /\ Matching = {}) =>
              IF ObjectsOf(exe[1]) # {} THEN mapping # None /\ mapping[1].from = <<0, 0>>
              ELSE mapping = None
        /\ (IsUuid(ExeUuid) /\ CleanScan) =>
              LET usable == {c \in Matching : CandParses(c)} IN
              IF usable # {} THEN mapping # None /\ mapping[1].from = FirstOf(usable)
              ELSE IF ObjectsOf(exe[1]) # {} THEN mapping # None /\ mapping[1].from = <<0, 0>>
              ELSE mapping = None

\* The Mapping was built from the candidate of the second bundle, the
\* candidate of the first bundle holding another UUID.
C3_Witness ==
    /\ done = "Mapping::new" /\ mapping # None
    /\ mapping[1].from = <<2, 1>>
    /\ <<1, 1>> \in AllCands /\ CandUuid(<<1, 1>>) = "U2"

\* C9 as stated (SpecNew), where no iterator fails, every candidate can be
\* mapped, and the target and every candidate of its UUID parse into a
\* Context: the first candidate, in iteration order, whose UUID equals the
\* target's supplies the Mapping; candidates that do not match are skipped
\* and the scan goes on; the target's own sections are used only if no
\* candidate of any bundle matches.
C9_FirstMatchWins ==
    (/\ done = "Mapping::new" /\ IsUuid(ExeUuid) /\ NoIoErrors
     /\ ObjectsOf(exe[1]) # {}
     /\ \A c \in Matching : CandParses(c)) =>
        /\ mapping # None
        /\ Matching # {} => mapping[1].from = FirstOf(Matching)
        /\ mapping[1].from = <<0, 0>> => Matching = {}

====
